---------------------------- MODULE Spec2Model ----------------------------
(***************************************************************************)
(* A model of app.py, the Streamlit "AI-Driven Chart Recommender".        *)
(*                                                                         *)
(*   - analyze_data   : per-column type inference and unique counts        *)
(*   - create_chart   : chart_type -> declarative chart specification      *)
(*   - ask_llm_for_*  : the two requests to the text-generation service    *)
(*   - the script body: upload, select boxes, button handler, gallery loop *)
(*                                                                         *)
(* Three specifications share the variables:                               *)
(*   SpecInfer  applies analyze_data to every dataset of a bounded size,   *)
(*   SpecChart  applies create_chart to every argument tuple of a set,     *)
(*   Spec       is the script: one action per script run or blocking step. *)
(***************************************************************************)
EXTENDS Integers, Sequences, FiniteSets, TLC

VARIABLES
    pc,          \* position of the script / of the function under study
    uploaded,    \* the dataset as read from the uploaded file
    df,          \* the script's df
    metadata,    \* the script's metadata
    x_col,       \* selectbox "X-axis variable"
    y_col,       \* selectbox "Y-axis variable"
    requests,    \* requests sent to the text-generation service in this run
    summary,     \* result of ask_llm_for_summary
    text,        \* response.output[0].content[0].text of the charts request
    rec,         \* result of ask_llm_for_charts
    idx,         \* enumerate index i of the gallery loop
    chart_type,  \* loop local / create_chart argument
    title,       \* loop local / create_chart argument
    chart,       \* loop local / create_chart result
    out,         \* the elements written to the page in this run, in order
    exc          \* the exception that ended the run, "" when none

vars == <<pc, uploaded, df, metadata, x_col, y_col, requests, summary, text,
          rec, idx, chart_type, title, chart, out, exc>>

---------------------------------------------------------------------------
(* Bounds *)

MaxRows == 2

MaxRecs == 2

---------------------------------------------------------------------------
(* Cells, columns, datasets                                                *)
(*                                                                         *)
(* A cell is [k, n, s]: k = "num" (n the number), "ts" (a Timestamp, n its *)
(* calendar day yyyymmdd), "str" (s the words of the string, separated by  *)
(* blanks in the file) or "nan" (NaN / None / NaT).                        *)

Num(n) == [k |-> "num", n |-> n, s |-> <<>>]

Ts(n) == [k |-> "ts", n |-> n, s |-> <<>>]

Str(w) == [k |-> "str", n |-> 0, s |-> w]

NaN == [k |-> "nan", n |-> 0, s |-> <<>>]

NumCells == {Num(1), Num(2)}

TsCells == {Ts(20210101), Ts(20210102)}

\* "1 Jan 2021", "1 JAN 2021", "2 Jan 2021" share one format; "a" is no date.
StrCells == {Str(<<"1", "Jan", "2021">>), Str(<<"1", "JAN", "2021">>),
             Str(<<"2", "Jan", "2021">>), Str(<<"a">>)}

ObjCells == StrCells \cup {NaN}

Column(name, dtype, vals) == [name |-> name, dtype |-> dtype, vals |-> vals]

SeqsOfLen(S, n) == [1..n -> S]

ColumnsOf(name, n) ==
    {Column(name, "number", v) : v \in SeqsOfLen(NumCells, n)}
    \cup {Column(name, "datetime64", v) : v \in SeqsOfLen(TsCells, n)}
    \cup {Column(name, "object", v) : v \in SeqsOfLen(ObjCells, n)}

ColNames == <<"c1", "c2">>

\* A DataFrame: nrows index entries and the columns in order, each nrows long.
Frame(n, cols) == [nrows |-> n, columns |-> cols]

FramesOf(n) ==
    {Frame(n, <<>>)}
    \cup {Frame(n, <<c>>) : c \in ColumnsOf(ColNames[1], n)}
    \cup {Frame(n, <<c, d>>) : c \in ColumnsOf(ColNames[1], n),
                               d \in ColumnsOf(ColNames[2], n)}

Names(d) == [j \in 1..Len(d.columns) |-> d.columns[j].name]

NameSet(d) == {d.columns[j].name : j \in 1..Len(d.columns)}

ColumnNamed(d, name) ==
    d.columns[CHOOSE j \in 1..Len(d.columns) : d.columns[j].name = name]

---------------------------------------------------------------------------
(* pandas helpers used by analyze_data *)

\* Series.nunique(): the number of distinct non-null values.
nunique(vals) ==
    Cardinality({vals[j] : j \in {q \in 1..Len(vals) : vals[q].k # "nan"}})

is_numeric_dtype(col) == col.dtype = "number"

is_datetime64_any_dtype(col) == col.dtype = "datetime64"

DayNum(w) == CASE w \in {"1", "01"} -> 1
               [] w \in {"2", "02"} -> 2
               [] OTHER -> 0

\* Month names are matched without regard to case.
Lower(w) == CASE w \in {"Jan", "JAN", "jan"} -> "jan"
              [] w \in {"Feb", "FEB", "feb"} -> "feb"
              [] OTHER -> w

MonthNum(w) == CASE Lower(w) = "jan" -> 1
                 [] Lower(w) = "feb" -> 2
                 [] OTHER -> 0

YearNum(w) == CASE w = "2021" -> 2021
                [] w = "2022" -> 2022
                [] OTHER -> 0

\* Parsing one cell as a date: [ok, val]. A null parses to NaT.
ParseDate(c) ==
    IF c.k = "nan" THEN [ok |-> TRUE, val |-> NaN]
    ELSE IF c.k = "ts" THEN [ok |-> TRUE, val |-> c]
    ELSE IF c.k = "str" /\ Len(c.s) = 3
            /\ DayNum(c.s[1]) # 0 /\ MonthNum(c.s[2]) # 0 /\ YearNum(c.s[3]) # 0
    THEN [ok |-> TRUE,
          val |-> Ts(YearNum(c.s[3]) * 10000 + MonthNum(c.s[2]) * 100
                     + DayNum(c.s[1]))]
    ELSE [ok |-> FALSE, val |-> c]

\* A variant keeping the rows that parse only (errors="coerce" then dropna).
to_datetime_dropping(vals) ==
    LET RECURSIVE Keep(_)
        Keep(j) == IF j > Len(vals) THEN <<>>
                   ELSE IF ParseDate(vals[j]).ok /\ vals[j].k # "nan"
                        THEN <<ParseDate(vals[j]).val>> \o Keep(j + 1)
                        ELSE Keep(j + 1)
    IN [raised |-> FALSE, vals |-> Keep(1)]

\* A variant that never raises: a value that is no date becomes NaT.
to_datetime_coerce(vals) ==
    [raised |-> FALSE,
     vals |-> [j \in 1..Len(vals) |->
                 IF ParseDate(vals[j]).ok THEN ParseDate(vals[j]).val ELSE NaN]]

\* pd.to_datetime(series, errors="raise"): raises unless every value parses.
to_datetime(vals) ==
    IF \A j \in 1..Len(vals) : ParseDate(vals[j]).ok
    THEN [raised |-> FALSE,
          vals |-> [j \in 1..Len(vals) |-> ParseDate(vals[j]).val]]
    ELSE [raised |-> TRUE, vals |-> vals]

---------------------------------------------------------------------------
(* analyze_data *)

\* One iteration of the loop over df.columns: the column as it is left in df
\* and its entry of meta. series is bound before df[col] is assigned.
AnalyzeColumn(col) ==
    LET series == col.vals
        parsed == to_datetime(series)
        col_type ==
            IF is_numeric_dtype(col) THEN "numeric"
            ELSE IF is_datetime64_any_dtype(col) THEN "datetime"
            ELSE IF ~parsed.raised THEN "datetime"
            ELSE "categorical"
        coerced == ~is_numeric_dtype(col) /\ ~is_datetime64_any_dtype(col)
                   /\ ~parsed.raised
    IN [col |-> IF coerced THEN Column(col.name, "datetime64", parsed.vals)
                ELSE col,
        entry |-> [type |-> col_type, n_unique |-> nunique(series)]]

\* A variant returning no metadata at all for a dataset without rows.
analyze_data_skipping_empty(d) ==
    IF d.nrows = 0 THEN [meta |-> <<>>, df |-> d]
    ELSE [meta |-> [j \in 1..Len(d.columns) |->
                      <<d.columns[j].name, AnalyzeColumn(d.columns[j]).entry>>],
          df |-> Frame(d.nrows, [j \in 1..Len(d.columns) |->
                                   AnalyzeColumn(d.columns[j]).col])]

\* meta is a dict in insertion order: a sequence of <<column name, entry>>.
analyze_data(d) ==
    [meta |-> [j \in 1..Len(d.columns) |->
                 <<d.columns[j].name, AnalyzeColumn(d.columns[j]).entry>>],
     df |-> Frame(d.nrows, [j \in 1..Len(d.columns) |->
                              AnalyzeColumn(d.columns[j]).col])]

MetaKeys(meta) == {meta[j][1] : j \in 1..Len(meta)}

MetaOf(meta, name) ==
    meta[CHOOSE j \in 1..Len(meta) : meta[j][1] = name][2]

---------------------------------------------------------------------------
(* Python / JSON values                                                    *)
(*                                                                         *)
(* A value is [k, s, keys, items]: k = "null" (None), "str" (s the text),  *)
(* "arr" (a list, items its elements) or "obj" (a dict in insertion order, *)
(* keys and items side by side).                                           *)

JNull == [k |-> "null", s |-> "", keys |-> <<>>, items |-> <<>>]

JStr(s) == [k |-> "str", s |-> s, keys |-> <<>>, items |-> <<>>]

JArr(items) == [k |-> "arr", s |-> "", keys |-> <<>>, items |-> items]

JObj(keys, items) == [k |-> "obj", s |-> "", keys |-> keys, items |-> items]

\* key in d
HasKey(v, key) == v.k = "obj" /\ \E j \in 1..Len(v.keys) : v.keys[j] = key

\* d[key] of a dict holding key: a repeated key keeps its last value.
GetKey(v, key) ==
    v.items[CHOOSE j \in 1..Len(v.keys) :
              /\ v.keys[j] = key
              /\ \A q \in (j + 1)..Len(v.keys) : v.keys[q] # key]

---------------------------------------------------------------------------
(* json.dumps / json.loads over token sequences                            *)
(*                                                                         *)
(* A text is the sequence of its lexical tokens <<kind, spelling>>: kind   *)
(* "p" (punctuation), "s" (a string literal), "l" (null) and "w" (a bare   *)
(* word, which no JSON text holds).                                        *)

P(c) == <<"p", c>>

RECURSIVE dumps(_)
dumps(v) ==
    LET RECURSIVE Elems(_)
        Elems(j) == IF j > Len(v.items) THEN <<>>
                    ELSE (IF j > 1 THEN <<P(",")>> ELSE <<>>)
                         \o (IF v.k = "obj" THEN <<<<"s", v.keys[j]>>, P(":")>>
                             ELSE <<>>)
                         \o dumps(v.items[j]) \o Elems(j + 1)
    IN CASE v.k = "null" -> <<<<"l", "null">>>>
         [] v.k = "str" -> <<<<"s", v.s>>>>
         [] v.k = "arr" -> <<P("[")>> \o Elems(1) \o <<P("]")>>
         [] v.k = "obj" -> <<P("{")>> \o Elems(1) \o <<P("}")>>

ParseFail == [ok |-> FALSE, val |-> JNull, pos |-> 0]

ParseOk(v, p) == [ok |-> TRUE, val |-> v, pos |-> p]

\* The value starting at token p of t, and the position after it.
RECURSIVE ParseValue(_, _)
ParseValue(t, p) ==
    LET \* the elements of a list after "[" or after a ",", acc those before
        RECURSIVE ParseElems(_, _)
        ParseElems(q, acc) ==
            LET e == ParseValue(t, q)
            IN IF ~e.ok \/ e.pos > Len(t) THEN ParseFail
               ELSE IF t[e.pos] = P("]")
                    THEN ParseOk(JArr(Append(acc, e.val)), e.pos + 1)
               ELSE IF t[e.pos] = P(",")
                    THEN ParseElems(e.pos + 1, Append(acc, e.val))
               ELSE ParseFail
        \* the members of a dict after "{" or after a ","
        RECURSIVE ParseMembers(_, _, _)
        ParseMembers(q, ks, vs) ==
            IF q + 1 > Len(t) \/ t[q][1] # "s" \/ t[q + 1] # P(":")
            THEN ParseFail
            ELSE LET e == ParseValue(t, q + 2)
                 IN IF ~e.ok \/ e.pos > Len(t) THEN ParseFail
                    ELSE IF t[e.pos] = P("}")
                         THEN ParseOk(JObj(Append(ks, t[q][2]),
                                           Append(vs, e.val)), e.pos + 1)
                    ELSE IF t[e.pos] = P(",")
                         THEN ParseMembers(e.pos + 1, Append(ks, t[q][2]),
                                           Append(vs, e.val))
                    ELSE ParseFail
    IN IF p > Len(t) THEN ParseFail
       ELSE IF t[p][1] = "s" THEN ParseOk(JStr(t[p][2]), p + 1)
       ELSE IF t[p] = <<"l", "null">> THEN ParseOk(JNull, p + 1)
       ELSE IF t[p] = P("[")
            THEN IF p + 1 <= Len(t) /\ t[p + 1] = P("]")
                 THEN ParseOk(JArr(<<>>), p + 2)
                 ELSE ParseElems(p + 1, <<>>)
       ELSE IF t[p] = P("{")
            THEN IF p + 1 <= Len(t) /\ t[p + 1] = P("}")
                 THEN ParseOk(JObj(<<>>, <<>>), p + 2)
                 ELSE ParseMembers(p + 1, <<>>, <<>>)
       ELSE ParseFail

\* json.loads(text): raises unless the whole text is one JSON value.
json_loads(t) ==
    LET r == ParseValue(t, 1)
    IN IF r.ok /\ r.pos = Len(t) + 1
       THEN [raised |-> FALSE, val |-> r.val]
       ELSE [raised |-> TRUE, val |-> JNull]

---------------------------------------------------------------------------
(* create_chart                                                            *)
(*                                                                         *)
(* An encoding channel is given to Altair as a shorthand, here the         *)
(* sequence of its parts: <<field>>, <<field, ":", code>> or               *)
(* <<"count", "(", ")">>. Encoding resolves it the way Altair does: field, *)
(* type ("" when it is left to be inferred from the data), aggregate, bin. *)

TypeOfCode(c) == CASE c = "Q" -> "quantitative"
                   [] c = "N" -> "nominal"
                   [] c = "O" -> "ordinal"
                   [] c = "T" -> "temporal"
                   [] OTHER -> ""

Encoding(shorthand, bin) ==
    IF shorthand = <<"count", "(", ")">>
    THEN [field |-> "", type |-> "quantitative", aggregate |-> "count",
          bin |-> bin]
    ELSE IF Len(shorthand) = 3 /\ shorthand[2] = ":"
    THEN [field |-> shorthand[1], type |-> TypeOfCode(shorthand[3]),
          aggregate |-> "", bin |-> bin]
    ELSE [field |-> shorthand[1], type |-> "", aggregate |-> "", bin |-> bin]

NoEncoding == [field |-> "", type |-> "", aggregate |-> "", bin |-> FALSE]

Chart(mark, x, y, t) == [mark |-> mark, x |-> x, y |-> y, title |-> t]

NoChart == Chart("", NoEncoding, NoEncoding, JNull)

\* A variant whose histogram plots y_col instead of the count.
create_chart_histogram_of_y(d, x, y, ct, t) ==
    IF ct = JStr("line")
    THEN Chart("line", Encoding(<<x>>, FALSE), Encoding(<<y>>, FALSE), t)
    ELSE IF ct = JStr("bar")
    THEN Chart("bar", Encoding(<<x>>, FALSE), Encoding(<<y>>, FALSE), t)
    ELSE IF ct = JStr("scatter")
    THEN Chart("point", Encoding(<<x>>, FALSE), Encoding(<<y>>, FALSE), t)
    ELSE IF ct = JStr("area")
    THEN Chart("area", Encoding(<<x>>, FALSE), Encoding(<<y>>, FALSE), t)
    ELSE IF ct = JStr("histogram")
    THEN Chart("bar", Encoding(<<x, ":", "Q">>, TRUE),
               Encoding(<<y>>, FALSE), t)
    ELSE IF ct = JStr("boxplot")
    THEN Chart("boxplot", Encoding(<<x, ":", "N">>, FALSE),
               Encoding(<<y, ":", "Q">>, FALSE), t)
    ELSE Chart("point", Encoding(<<x>>, FALSE), Encoding(<<y>>, FALSE), t)

\* A variant whose fallback branch draws bars.
create_chart_bar_fallback(d, x, y, ct, t) ==
    IF ct = JStr("line")
    THEN Chart("line", Encoding(<<x>>, FALSE), Encoding(<<y>>, FALSE), t)
    ELSE IF ct = JStr("bar")
    THEN Chart("bar", Encoding(<<x>>, FALSE), Encoding(<<y>>, FALSE), t)
    ELSE IF ct = JStr("scatter")
    THEN Chart("point", Encoding(<<x>>, FALSE), Encoding(<<y>>, FALSE), t)
    ELSE IF ct = JStr("area")
    THEN Chart("area", Encoding(<<x>>, FALSE), Encoding(<<y>>, FALSE), t)
    ELSE IF ct = JStr("histogram")
    THEN Chart("bar", Encoding(<<x, ":", "Q">>, TRUE),
               Encoding(<<"count", "(", ")">>, FALSE), t)
    ELSE IF ct = JStr("boxplot")
    THEN Chart("boxplot", Encoding(<<x, ":", "N">>, FALSE),
               Encoding(<<y, ":", "Q">>, FALSE), t)
    ELSE Chart("bar", Encoding(<<x>>, FALSE), Encoding(<<y>>, FALSE), t)

create_chart(d, x, y, ct, t) ==
    IF ct = JStr("line")
    THEN Chart("line", Encoding(<<x>>, FALSE), Encoding(<<y>>, FALSE), t)
    ELSE IF ct = JStr("bar")
    THEN Chart("bar", Encoding(<<x>>, FALSE), Encoding(<<y>>, FALSE), t)
    ELSE IF ct = JStr("scatter")
    THEN Chart("point", Encoding(<<x>>, FALSE), Encoding(<<y>>, FALSE), t)
    ELSE IF ct = JStr("area")
    THEN Chart("area", Encoding(<<x>>, FALSE), Encoding(<<y>>, FALSE), t)
    ELSE IF ct = JStr("histogram")
    THEN Chart("bar", Encoding(<<x, ":", "Q">>, TRUE),
               Encoding(<<"count", "(", ")">>, FALSE), t)
    ELSE IF ct = JStr("boxplot")
    THEN Chart("boxplot", Encoding(<<x, ":", "N">>, FALSE),
               Encoding(<<y, ":", "Q">>, FALSE), t)
    ELSE Chart("point", Encoding(<<x>>, FALSE), Encoding(<<y>>, FALSE), t)

\* Altair cannot infer the type of a field that is no column of the data:
\* a channel that names such a field without a type makes the chart fail.
Uninferable(d, enc) ==
    enc.type = "" /\ enc.aggregate = "" /\ enc.field \notin NameSet(d)

\* st.altair_chart(chart): whether it raises. libraryFails stands for any
\* other exception of the charting library or of the page renderer.
altair_chart_raises(d, c, libraryFails) ==
    libraryFails \/ Uninferable(d, c.x) \/ Uninferable(d, c.y)

---------------------------------------------------------------------------
(* The replies of the text-generation service *)

ItemKeys ==
    <<"chart_type", "intent", "title", "strengths", "weaknesses", "when_to_use">>

\* A recommendation holding every key the prompt asks for.
Item(ct) ==
    JObj(ItemKeys, <<ct, JStr("i"), JStr("T"), JStr("s"), JStr("w"), JStr("u")>>)

\* The dict v without key.
Without(v, key) ==
    LET keep == {j \in 1..Len(v.keys) : v.keys[j] # key}
        RECURSIVE Pick(_)
        Pick(j) == IF j > Len(v.keys) THEN <<>>
                   ELSE (IF j \in keep THEN <<j>> ELSE <<>>) \o Pick(j + 1)
        at == Pick(1)
    IN JObj([j \in 1..Len(at) |-> v.keys[at[j]]],
            [j \in 1..Len(at) |-> v.items[at[j]]])

WellFormedItems == {Item(JStr("line")), Item(JStr("histogram")), Item(JStr("pie"))}

MalformedItems ==
    {Without(Item(JStr("line")), ItemKeys[j]) : j \in 1..Len(ItemKeys)}
    \cup {JStr("x")}

Items == WellFormedItems \cup MalformedItems

RecommendationLists == UNION {SeqsOfLen(Items, n) : n \in 0..MaxRecs}

Reply(list) == JObj(<<"recommendations">>, <<JArr(list)>>)

\* Valid JSON of another shape than the prompt's schema.
OddValues == {JNull, JArr(<<>>), JObj(<<>>, <<>>),
              JObj(<<"recommendations">>, <<JNull>>),
              JObj(<<"recommendations">>, <<JObj(<<"chart_type">>, <<JStr("line")>>)>>)}

ReplyValues == {Reply(l) : l \in RecommendationLists} \cup OddValues

\* "not json"
NotJson == <<<<"w", "not">>, <<"w", "json">>>>

\* Texts that are no JSON: words, nothing, a reply cut short, a reply followed
\* by more.
InvalidTexts ==
    {NotJson, <<>>}
    \cup {SubSeq(dumps(Reply(<<i>>)), 1, Len(dumps(Reply(<<i>>))) - 1) :
            i \in WellFormedItems}
    \cup {dumps(Reply(<<i>>)) \o <<P("}")>> : i \in WellFormedItems}
    \cup {<<P("{"), <<"s", "recommendations">>, P(":"), P("["), P(","), P("]"),
            P("}")>>}

ReplyTexts == {dumps(v) : v \in ReplyValues} \cup InvalidTexts

---------------------------------------------------------------------------
(* ask_llm_for_summary, ask_llm_for_charts *)

SummaryFallback == "AI could not generate a summary for this dataset."

\* client.responses.create(...) of ask_llm_for_summary
ask_llm_for_summary_send(reqs) == Append(reqs, "summary")

\* client.responses.create(...) of ask_llm_for_charts
ask_llm_for_charts_send(reqs) == Append(reqs, "charts")

Fallback == JObj(<<"recommendations">>, <<JArr(<<>>)>>)

\* A variant asking the service again when its reply does not parse.
ask_llm_for_charts_retrying(reqs, t) ==
    IF json_loads(t).raised
    THEN [requests |-> Append(reqs, "charts"), rec |-> Fallback,
          raised |-> FALSE]
    ELSE [requests |-> reqs, rec |-> json_loads(t).val, raised |-> FALSE]

\* A variant without the except clause: rec is left unset and the error
\* is reported in raised.
ask_llm_for_charts_unguarded(reqs, t) ==
    [requests |-> reqs, rec |-> json_loads(t).val, raised |-> json_loads(t).raised]

\* The rest of ask_llm_for_charts once the reply's text t is there: the
\* requests sent so far are left as they are.
ask_llm_for_charts(reqs, t) ==
    IF json_loads(t).raised
    THEN [requests |-> reqs, rec |-> Fallback, raised |-> FALSE]
    ELSE [requests |-> reqs, rec |-> json_loads(t).val, raised |-> FALSE]

---------------------------------------------------------------------------
(* The page *)

\* An element written to the page: st.<kind>(...) for recommendation i.
El(kind, i, what, c) == [kind |-> kind, i |-> i, what |-> what, chart |-> c]

CaptionKeys == <<"intent", "strengths", "weaknesses", "when_to_use">>

\* The first of the four caption keys r lacks, 5 when it holds them all.
FirstMissing(r) ==
    CHOOSE j \in 1..(Len(CaptionKeys) + 1) :
        /\ \A q \in 1..(j - 1) : HasKey(r, CaptionKeys[q])
        /\ j <= Len(CaptionKeys) => ~HasKey(r, CaptionKeys[j])

\* The header and the captions of recommendation i, up to the first
\* subscript that raises.
ItemHead(r, i) ==
    IF r.k # "obj" THEN [exc |-> "TypeError", out |-> <<>>]
    ELSE IF ~HasKey(r, "chart_type") \/ ~HasKey(r, "title")
    THEN [exc |-> "KeyError", out |-> <<>>]
    ELSE [exc |-> IF FirstMissing(r) <= Len(CaptionKeys) THEN "KeyError" ELSE "",
          out |-> <<El("markdown", i, "title", NoChart)>>
                  \o [j \in 1..(FirstMissing(r) - 1) |->
                        El("caption", i, CaptionKeys[j], NoChart)]]

\* A variant without try/except around the chart.
gallery_item_unguarded(r, i, d, x, y, libraryFails) ==
    LET head == ItemHead(r, i)
        c == create_chart(d, x, y, GetKey(r, "chart_type"), GetKey(r, "title"))
    IN IF head.exc # "" THEN [exc |-> head.exc, out |-> head.out, chart |-> NoChart]
       ELSE IF altair_chart_raises(d, c, libraryFails)
       THEN [exc |-> "Exception", out |-> head.out, chart |-> c]
       ELSE [exc |-> "", out |-> Append(head.out, El("altair_chart", i, "", c)),
             chart |-> c]

\* The body of the loop for recommendation r, the i-th: what it writes, the
\* exception that leaves it (none: ""), and the chart it built.
gallery_item(r, i, d, x, y, libraryFails) ==
    LET head == ItemHead(r, i)
        c == create_chart(d, x, y, GetKey(r, "chart_type"), GetKey(r, "title"))
    IN IF head.exc # "" THEN [exc |-> head.exc, out |-> head.out, chart |-> NoChart]
       ELSE IF altair_chart_raises(d, c, libraryFails)
       THEN [exc |-> "", out |-> Append(head.out, El("error", i, "", NoChart)),
             chart |-> c]
       ELSE [exc |-> "", out |-> Append(head.out, El("altair_chart", i, "", c)),
             chart |-> c]

\* len(v) of a list or a dict.
PyLen(v) == IF v.k = "arr" THEN Len(v.items) ELSE Len(v.keys)

\* The values a for loop over v draws: a list's elements, a dict's keys.
PyIter(v) == IF v.k = "arr" THEN v.items
             ELSE [j \in 1..Len(v.keys) |-> JStr(v.keys[j])]

\* rec.get("recommendations", [])
Recommendations(r) ==
    IF HasKey(r, "recommendations") THEN GetKey(r, "recommendations")
    ELSE JArr(<<>>)

---------------------------------------------------------------------------
(* The script: one run per interaction *)

\* The files a user uploads here: dates and numbers, a header without rows,
\* one column of text.
Uploads ==
    {Frame(2, <<Column("c1", "object", <<Str(<<"1", "Jan", "2021">>),
                                          Str(<<"1", "JAN", "2021">>)>>),
                Column("c2", "number", <<Num(1), Num(2)>>)>>),
     Frame(0, <<Column("c1", "object", <<>>), Column("c2", "object", <<>>)>>),
     Frame(2, <<Column("c1", "object", <<Str(<<"a">>),
                                          Str(<<"1", "Jan", "2021">>)>>)>>)}

NoFrame == Frame(0, <<>>)

Min(a, b) == IF a < b THEN a ELSE b

\* text before any reply is there.
NoText == <<<<"none", "">>>>

\* What a run starts from: nothing sent, nothing written, the locals unset.
FreshRun ==
    /\ requests' = <<>>
    /\ summary' = ""
    /\ text' = NoText
    /\ rec' = JNull
    /\ idx' = 0
    /\ chart_type' = JNull
    /\ title' = JNull
    /\ chart' = NoChart
    /\ out' = <<>>
    /\ exc' = ""

Idle == pc \in {"ready", "done", "crashed"}

\* A file is chosen: the script reads it, analyses it and shows the select
\* boxes at their defaults.
Upload(d) ==
    /\ pc \in {"start", "ready", "done", "crashed"}
    /\ uploaded' = d
    /\ df' = analyze_data(d).df
    /\ metadata' = analyze_data(d).meta
    /\ x_col' = Names(d)[1]
    /\ y_col' = Names(d)[Min(1, Len(d.columns) - 1) + 1]
    /\ pc' = "ready"
    /\ FreshRun

\* Another X is chosen: the script runs again on the same file.
SelectX(c) ==
    /\ Idle
    /\ c \in NameSet(df) /\ c # x_col
    /\ df' = analyze_data(uploaded).df
    /\ metadata' = analyze_data(uploaded).meta
    /\ x_col' = c
    /\ pc' = "ready"
    /\ FreshRun
    /\ UNCHANGED <<uploaded, y_col>>

SelectY(c) ==
    /\ Idle
    /\ c \in NameSet(df) /\ c # y_col
    /\ df' = analyze_data(uploaded).df
    /\ metadata' = analyze_data(uploaded).meta
    /\ y_col' = c
    /\ pc' = "ready"
    /\ FreshRun
    /\ UNCHANGED <<uploaded, x_col>>

\* The button is pressed: the script runs again and, in the button's branch,
\* sends the summary request and waits.
PressGenerate ==
    /\ Idle
    /\ df' = analyze_data(uploaded).df
    /\ metadata' = analyze_data(uploaded).meta
    /\ requests' = ask_llm_for_summary_send(<<>>)
    /\ pc' = "summary_call"
    /\ summary' = "" /\ text' = NoText /\ rec' = JNull /\ idx' = 0
    /\ chart_type' = JNull /\ title' = JNull /\ chart' = NoChart
    /\ out' = <<>> /\ exc' = ""
    /\ UNCHANGED <<uploaded, x_col, y_col>>

\* The summary request raises (the service cannot be reached, say).
SummaryRaises ==
    /\ pc = "summary_call"
    /\ pc' = "crashed"
    /\ exc' = "APIError"
    /\ UNCHANGED <<uploaded, df, metadata, x_col, y_col, requests, summary, text,
                   rec, idx, chart_type, title, chart, out>>

\* The summary request returns: its text, or the fallback when the response
\* holds none. ask_llm_for_charts then sends its request and waits.
SummaryReply(hasText) ==
    /\ pc = "summary_call"
    /\ summary' = IF hasText THEN "summary" ELSE SummaryFallback
    /\ requests' = ask_llm_for_charts_send(requests)
    /\ pc' = "charts_call"
    /\ UNCHANGED <<uploaded, df, metadata, x_col, y_col, text, rec, idx,
                   chart_type, title, chart, out, exc>>

\* The charts request raises, or its response holds no text (line 105 is
\* outside the try).
ChartsRaises(e) ==
    /\ pc = "charts_call"
    /\ pc' = "crashed"
    /\ exc' = e
    /\ UNCHANGED <<uploaded, df, metadata, x_col, y_col, requests, summary, text,
                   rec, idx, chart_type, title, chart, out>>

SummaryShown == <<El("subheader", 0, "summary", NoChart),
                  El("write", 0, "summary", NoChart),
                  El("subheader", 0, "gallery", NoChart)>>

\* The charts request returns text t: ask_llm_for_charts parses it, the
\* summary is shown, and the gallery starts or the warning is shown.
ChartsReply(t) ==
    LET a == ask_llm_for_charts(requests, t)
        recs == Recommendations(a.rec)
    IN /\ pc = "charts_call"
       /\ text' = t
       /\ requests' = a.requests
       /\ UNCHANGED <<uploaded, df, metadata, x_col, y_col, summary, chart_type,
                      title, chart>>
       /\ IF a.raised
          THEN /\ pc' = "crashed" /\ exc' = "JSONDecodeError"
               /\ UNCHANGED <<rec, idx, out>>
          ELSE /\ rec' = a.rec
               /\ IF a.rec.k # "obj"
                  THEN /\ pc' = "crashed" /\ exc' = "AttributeError"
                       /\ out' = SummaryShown /\ UNCHANGED idx
                  ELSE IF recs.k \notin {"arr", "obj"}
                  THEN /\ pc' = "crashed" /\ exc' = "TypeError"
                       /\ out' = SummaryShown /\ UNCHANGED idx
                  ELSE IF PyLen(recs) = 0
                  THEN /\ pc' = "done"
                       /\ out' = Append(SummaryShown, El("warning", 0, "", NoChart))
                       /\ UNCHANGED <<idx, exc>>
                  ELSE /\ pc' = "loop" /\ idx' = 1
                       /\ out' = SummaryShown /\ UNCHANGED exc

\* One iteration of the gallery loop.
LoopIteration(libraryFails) ==
    LET recs == PyIter(GetKey(rec, "recommendations"))
        r == recs[idx]
        g == gallery_item(r, idx, df, x_col, y_col, libraryFails)
    IN /\ pc = "loop"
       /\ out' = out \o g.out
       /\ chart' = g.chart
       /\ chart_type' = IF HasKey(r, "chart_type") THEN GetKey(r, "chart_type")
                        ELSE chart_type
       /\ title' = IF HasKey(r, "chart_type") /\ HasKey(r, "title")
                   THEN GetKey(r, "title") ELSE title
       /\ exc' = g.exc
       /\ IF g.exc # "" THEN pc' = "crashed" /\ UNCHANGED idx
          ELSE IF idx = Len(recs) THEN pc' = "done" /\ UNCHANGED idx
          ELSE pc' = "loop" /\ idx' = idx + 1
       /\ UNCHANGED <<uploaded, df, metadata, x_col, y_col, requests, summary,
                      text, rec>>

Init ==
    /\ pc = "start"
    /\ uploaded = NoFrame
    /\ df = NoFrame
    /\ metadata = <<>>
    /\ x_col = ""
    /\ y_col = ""
    /\ requests = <<>>
    /\ summary = ""
    /\ text = NoText
    /\ rec = JNull
    /\ idx = 0
    /\ chart_type = JNull
    /\ title = JNull
    /\ chart = NoChart
    /\ out = <<>>
    /\ exc = ""

Next ==
    \/ \E d \in Uploads : Upload(d)
    \/ \E c \in {ColNames[j] : j \in 1..Len(ColNames)} : SelectX(c)
    \/ \E c \in {ColNames[j] : j \in 1..Len(ColNames)} : SelectY(c)
    \/ PressGenerate
    \/ SummaryRaises
    \/ \E hasText \in BOOLEAN : SummaryReply(hasText)
    \/ \E e \in {"APIError", "IndexError"} : ChartsRaises(e)
    \/ \E t \in ReplyTexts : ChartsReply(t)
    \/ \E libraryFails \in BOOLEAN : LoopIteration(libraryFails)

Spec == Init /\ [][Next]_vars

---------------------------------------------------------------------------
(* analyze_data on its own: every dataset of up to MaxRows rows, then the call *)

InitInfer ==
    /\ pc = "loaded"
    /\ \E n \in 0..MaxRows : uploaded \in FramesOf(n)
    /\ df = uploaded
    /\ metadata = <<>>
    /\ x_col = ""
    /\ y_col = ""
    /\ requests = <<>>
    /\ summary = ""
    /\ text = NoText
    /\ rec = JNull
    /\ idx = 0
    /\ chart_type = JNull
    /\ title = JNull
    /\ chart = NoChart
    /\ out = <<>>
    /\ exc = ""

\* metadata, df = analyze_data(df)
Analyze ==
    /\ pc = "loaded"
    /\ metadata' = analyze_data(df).meta
    /\ df' = analyze_data(df).df
    /\ pc' = "analyzed"
    /\ UNCHANGED <<uploaded, x_col, y_col, requests, summary, text, rec, idx,
                   chart_type, title, chart, out, exc>>

NextInfer == Analyze

SpecInfer == InitInfer /\ [][NextInfer]_vars

---------------------------------------------------------------------------
(* create_chart on its own: every argument tuple, then the call *)

ChartFrames ==
    {Frame(2, <<Column("c1", "object", <<Str(<<"a">>), Str(<<"a">>)>>),
                Column("c2", "number", <<Num(1), Num(2)>>)>>),
     Frame(2, <<Column("c1", "number", <<Num(1), Num(1)>>)>>)}

\* Column names passed as x_col and y_col; "zz" is no column of the frames.
ArgCols == {"c1", "c2", "zz"}

KnownTypes ==
    {JStr("line"), JStr("bar"), JStr("scatter"), JStr("area"),
     JStr("histogram"), JStr("boxplot")}

\* chart_type arguments: the six kinds, an unknown one, an empty one, None.
ChartTypeArgs == KnownTypes \cup {JStr("pie"), JStr(""), JNull}

InitChart ==
    /\ pc = "args"
    /\ uploaded \in ChartFrames
    /\ df = uploaded
    /\ metadata = <<>>
    /\ x_col \in ArgCols
    /\ y_col \in ArgCols
    /\ requests = <<>>
    /\ summary = ""
    /\ text = NoText
    /\ rec = JNull
    /\ idx = 0
    /\ chart_type \in ChartTypeArgs
    /\ title \in {JStr("T"), JStr("U")}
    /\ chart = NoChart
    /\ out = <<>>
    /\ exc = ""

\* chart = create_chart(df, x_col, y_col, chart_type, title)
CreateChart ==
    /\ pc = "args"
    /\ chart' = create_chart(df, x_col, y_col, chart_type, title)
    /\ pc' = "charted"
    /\ UNCHANGED <<uploaded, df, metadata, x_col, y_col, requests, summary, text,
                   rec, idx, chart_type, title, out, exc>>

NextChart == CreateChart

SpecChart == InitChart /\ [][NextChart]_vars

---------------------------------------------------------------------------
(* Properties of analyze_data (SpecInfer) *)

Analyzed == pc = "analyzed"

Cols(d) == 1..Len(d.columns)

\* Whether column j of the input was replaced by its parsed values.
Coerced(j) == uploaded.columns[j].dtype = "object"
              /\ df.columns[j].dtype = "datetime64"

\* C1: after analyze_data each column's n_unique equals the number of distinct
\* values of the column as it stands in the returned df, that is after the
\* datetime coercion of the same call.
C1_CardinalityPostCoercion ==
    Analyzed =>
        \A j \in Cols(df) :
            MetaOf(metadata, df.columns[j].name).n_unique
                = nunique(df.columns[j].vals)

\* C7: analyze_data changes neither the number of rows nor the number, the
\* names or the order of the columns; a column is either left as it was or
\* replaced, row by row, by the parsed dates of its own values.
C7_ShapePreserved ==
    Analyzed =>
        /\ df.nrows = uploaded.nrows
        /\ Names(df) = Names(uploaded)
        /\ \A j \in Cols(df) :
            /\ Len(df.columns[j].vals) = uploaded.nrows
            /\ \/ df.columns[j] = uploaded.columns[j]
               \/ /\ Coerced(j)
                  /\ \A q \in 1..uploaded.nrows :
                        /\ ParseDate(uploaded.columns[j].vals[q]).ok
                        /\ df.columns[j].vals[q]
                             = ParseDate(uploaded.columns[j].vals[q]).val

\* C7 witness: a dataset of two columns and two rows, one column coerced.
C7_Witness ==
    /\ Analyzed
    /\ uploaded.nrows = 2 /\ Len(uploaded.columns) = 2
    /\ Coerced(1)
    /\ df.columns[1].vals # uploaded.columns[1].vals
    /\ df.columns[2] = uploaded.columns[2]

\* C8 as stated: a dataset with zero columns, or with columns but zero rows,
\* yields an empty metadata mapping.
C8_EmptyDatasetEmptyMeta ==
    Analyzed /\ (Len(uploaded.columns) = 0 \/ uploaded.nrows = 0)
        => metadata = <<>>

\* C8 amended: zero columns yield an empty mapping; zero rows yield one
\* entry per column, with n_unique 0 and the type numeric for a numeric
\* column, datetime for any other.
C8_EmptyDatasetMeta ==
    Analyzed =>
        /\ Len(uploaded.columns) = 0 => metadata = <<>>
        /\ uploaded.nrows = 0 =>
            /\ Len(metadata) = Len(uploaded.columns)
            /\ \A j \in Cols(uploaded) :
                /\ metadata[j][1] = uploaded.columns[j].name
                /\ metadata[j][2].n_unique = 0
                /\ metadata[j][2].type
                     = IF uploaded.columns[j].dtype = "number" THEN "numeric"
                       ELSE "datetime"

\* C8 witness: a dataset of two columns and no rows has two entries.
C8_Witness ==
    /\ Analyzed
    /\ uploaded.nrows = 0 /\ Len(uploaded.columns) = 2
    /\ MetaKeys(metadata) = {"c1", "c2"}

\* C10: a numeric column is numeric, a temporal one datetime, both left as
\* they are; any other column is datetime with its values replaced by the
\* parsed ones exactly if every value parses as a date, and is categorical
\* and left unchanged otherwise.
C10_ClassificationRules ==
    Analyzed =>
        \A j \in Cols(uploaded) :
            LET c == uploaded.columns[j]
                after == df.columns[j]
                type == MetaOf(metadata, c.name).type
                allParse == \A q \in 1..Len(c.vals) : ParseDate(c.vals[q]).ok
            IN CASE c.dtype = "number" -> type = "numeric" /\ after = c
                 [] c.dtype = "datetime64" -> type = "datetime" /\ after = c
                 [] OTHER ->
                    /\ type = "datetime" <=> allParse
                    /\ type = "categorical" <=> ~allParse
                    /\ allParse =>
                        /\ after.dtype = "datetime64"
                        /\ after.vals = [q \in 1..Len(c.vals) |->
                                           ParseDate(c.vals[q]).val]
                    /\ ~allParse => after = c

\* C10 witness: one text column that parses and was replaced beside one that
\* does not parse and was kept.
C10_Witness ==
    /\ Analyzed
    /\ Len(uploaded.columns) = 2 /\ uploaded.nrows = 2
    /\ uploaded.columns[1].dtype = "object"
    /\ uploaded.columns[2].dtype = "object"
    /\ MetaOf(metadata, "c1").type = "datetime"
    /\ df.columns[1].vals # uploaded.columns[1].vals
    /\ MetaOf(metadata, "c2").type = "categorical"
    /\ \E q \in 1..2 : ParseDate(uploaded.columns[2].vals[q]).ok
    /\ df.columns[2] = uploaded.columns[2]

---------------------------------------------------------------------------
(* Properties of create_chart (SpecChart) *)

Charted == pc = "charted"

Marks == {"line", "bar", "point", "area", "histogram", "boxplot"}

\* C5: a chart_type that is none of the six kinds gives the spec of "scatter"
\* (point mark, x_col and y_col as given, the same title), and the mark of
\* any chart is one of the enumerated kinds.
C5_UnknownTypeIsScatter ==
    Charted =>
        /\ chart.mark \in Marks
        /\ chart_type \notin KnownTypes =>
            /\ chart = create_chart(df, x_col, y_col, JStr("scatter"), title)
            /\ chart = Chart("point",
                             [field |-> x_col, type |-> "", aggregate |-> "",
                              bin |-> FALSE],
                             [field |-> y_col, type |-> "", aggregate |-> "",
                              bin |-> FALSE],
                             title)

\* C5 witness: the chart of an unknown kind.
C5_Witness ==
    Charted /\ chart_type = JStr("pie") /\ chart.mark = "point"
    /\ x_col = "c1" /\ y_col = "c2"

\* C6: a histogram has a bar mark, counts on y whatever y_col is, and x_col
\* on x as quantitative and binned whatever the column's type; df is as it
\* was before the call.
C6_Histogram ==
    Charted /\ chart_type = JStr("histogram") =>
        /\ chart.mark = "bar"
        /\ chart.y = [field |-> "", type |-> "quantitative",
                      aggregate |-> "count", bin |-> FALSE]
        /\ chart.x = [field |-> x_col, type |-> "quantitative",
                      aggregate |-> "", bin |-> TRUE]
        /\ chart.title = title
        /\ \A y \in ArgCols :
                create_chart(df, x_col, y, chart_type, title) = chart
        /\ df = uploaded

\* C6 witness: the histogram of a column of text, with another y_col.
C6_Witness ==
    /\ Charted /\ chart_type = JStr("histogram")
    /\ x_col = "c1" /\ y_col = "c2"
    /\ "c1" \in NameSet(df) /\ ColumnNamed(df, "c1").dtype = "object"
    /\ chart.mark = "bar"

---------------------------------------------------------------------------
(* Properties of the script (Spec) *)

\* The recommendations the gallery loop runs over.
LoopItems == PyIter(Recommendations(rec))

InGallery == idx >= 1

ElementsOf(kind, i) == {p \in 1..Len(out) : out[p].kind = kind /\ out[p].i = i}

\* A recommendation whose subscripts of the loop body all succeed.
Complete(r) ==
    r.k = "obj" /\ \A j \in 1..Len(ItemKeys) : HasKey(r, ItemKeys[j])

\* C2: a recommendation lacking chart_type, title, intent, strengths,
\* weaknesses or when_to_use never aborts the batch: once the gallery loop
\* runs, no unhandled error ends the action, and when the run is over every
\* recommendation of the list has been processed.
C2_MalformedItemIsolated ==
    InGallery =>
        /\ pc # "crashed"
        /\ pc = "done" => idx = Len(LoopItems)

\* C3: a reply that is no JSON makes ask_llm_for_charts return the empty
\* recommendation list, raises nothing, and the page shows the summary and
\* the warning and no chart.
C3_InvalidReplyFallsBack ==
    (text \in InvalidTexts \/ (text # NoText /\ json_loads(text).raised)) =>
        /\ rec = Fallback
        /\ exc = "" /\ pc = "done"
        /\ out = Append(SummaryShown, El("warning", 0, "", NoChart))
        /\ \A p \in 1..Len(out) : out[p].kind # "altair_chart"

\* C3 witness: the reply "not json" was received and the warning is shown.
C3_Witness ==
    /\ text = NotJson
    /\ pc = "done"
    /\ rec = Fallback
    /\ out[Len(out)].kind = "warning"

\* C4: a failure of create_chart or of the chart's rendering is caught for
\* that recommendation alone and shown as an error message; it never ends
\* the run, the loop goes on to the next recommendation, and the elements
\* of the page stay in the order of the list. When every recommendation is
\* complete, each one ends with its chart or its error message.
C4_ChartFailureIsolated ==
    /\ exc # "Exception"
    /\ \A p \in 1..Len(out) :
        out[p].kind = "error" =>
            LET i == out[p].i
            IN /\ ElementsOf("markdown", i) # {}
               /\ ElementsOf("altair_chart", i) = {}
               /\ Cardinality(ElementsOf("error", i)) = 1
               /\ IF i < Len(LoopItems) THEN idx > i
                  ELSE pc = "done" /\ exc = ""
    /\ \A p, q \in 1..Len(out) : p < q => out[p].i <= out[q].i
    /\ (pc = "done" /\ InGallery
        /\ \A j \in 1..Len(LoopItems) : Complete(LoopItems[j])) =>
            \A j \in 1..Len(LoopItems) :
                Cardinality(ElementsOf("altair_chart", j)
                            \cup ElementsOf("error", j)) = 1

\* C4 witness: the first chart failed, the second was drawn after it.
C4_Witness ==
    /\ pc = "done"
    /\ Len(LoopItems) = 2
    /\ ElementsOf("error", 1) # {}
    /\ ElementsOf("altair_chart", 2) # {}
    /\ out[Len(out)].kind = "altair_chart"

=============================================================================
